---- MODULE Spec2Model ----
\* A model of the Header block tool (src/src/index.js): its configuration
\* getters, data normalisation, the element it builds and tracks, the two
\* settings callbacks, paste import, merge and save.
\*
\* JavaScript strings are sequences of tokens: "Foo" is <<"F","o","o">>, the
\* level "99" is <<"9","9">>.  A JavaScript value is a record [t, n, s]: its
\* type, its number (when a number) and its string (when a string).
EXTENDS Integers, Sequences, FiniteSets

\* pc: "new" before the constructor ran, "live" after it, "threw" when it threw
\* config: this._config; data: this._data; element: this._element
\* children: the nodes the host's parent node holds
\* last: the last call made on the instance, with its arguments
VARIABLES pc, config, data, element, children, last

vars == <<pc, config, data, element, children, last>>

\* ---------------------------------------------------------------- bounds
\* longest markup an element holds
MaxLen == 2
\* number of DOM node identities
MaxNodes == 3

\* ------------------------------------------------------ JavaScript values
Undefined == [t |-> "undefined", n |-> 0, s |-> <<>>]
Num(k) == [t |-> "number", n |-> k, s |-> <<>>]
Str(x) == [t |-> "string", n |-> 0, s |-> x]

\* ToBoolean: undefined, null, 0 and '' are falsy
Truthy(v) ==
    CASE v.t = "number" -> v.n # 0
      [] v.t = "string" -> v.s # <<>>
      [] OTHER -> FALSE

Digits == <<"0", "1", "2", "3", "4", "5", "6", "7", "8", "9">>

RECURSIVE DigitsOf(_)
\* the decimal digits of a natural number
DigitsOf(k) ==
    IF k < 10 THEN <<Digits[k + 1]>>
    ELSE DigitsOf(k \div 10) \o <<Digits[(k % 10) + 1]>>

\* the string that + concatenates for a value: the type name for undefined
\* and null, the digits of a number, the string itself for a string
toStr(v) ==
    CASE v.t = "string" -> v.s
      [] v.t = "number" ->
            IF v.n < 0 THEN <<"-">> \o DigitsOf(0 - v.n) ELSE DigitsOf(v.n)
      [] OTHER -> <<v.t>>

IsDigit(c) == \E i \in DOMAIN Digits : Digits[i] = c
DigitVal(c) == (CHOOSE i \in DOMAIN Digits : Digits[i] = c) - 1

RECURSIVE LeadingDigits(_, _)
\* the value of the longest prefix of digits of s, read after acc
LeadingDigits(s, acc) ==
    IF s = <<>> \/ ~IsDigit(Head(s)) THEN acc
    ELSE LeadingDigits(Tail(s), 10 * acc + DigitVal(Head(s)))

NaN == [nan |-> TRUE, n |-> 0]
\* parseInt(v, 10): an integer number is itself, a string is its leading
\* digits after an optional minus sign, anything else is NaN
parseInt(v) ==
    CASE v.t = "number" -> [nan |-> FALSE, n |-> v.n]
      [] v.t = "string" ->
            LET neg == v.s # <<>> /\ Head(v.s) = "-"
                body == IF neg THEN Tail(v.s) ELSE v.s
            IN  IF body = <<>> \/ ~IsDigit(Head(body)) THEN NaN
                ELSE [nan |-> FALSE,
                      n |-> IF neg THEN 0 - LeadingDigits(body, 0)
                                   ELSE LeadingDigits(body, 0)]
      [] OTHER -> NaN

\* parseInt(v, 10) || dflt
parseIntOr(v, dflt) ==
    LET p == parseInt(v) IN IF p.nan \/ p.n = 0 THEN dflt ELSE p.n

\* ------------------------------------------------------------- markup
\* el.innerHTML = s parses s into text nodes: the entity &amp; and a bare
\* ampersand both become the character &
ParseHTML(s) == [i \in DOMAIN s |-> IF s[i] = "&amp;" THEN "&" ELSE s[i]]
\* reading el.innerHTML serialises the text nodes: & is written &amp;
SerializeHTML(d) == [i \in DOMAIN d |-> IF d[i] = "&" THEN "&amp;" ELSE d[i]]
\* what el.innerHTML reads as after el.innerHTML = s
innerHTMLAfterSet(s) == SerializeHTML(ParseHTML(s))

\* ------------------------------------------------------ static getters
TagOf == <<"H1", "H2", "H3", "H4", "H5", "H6">>
HEADER_LEVELS == [i \in 1..6 |-> [id |-> i, tag |-> TagOf[i]]]
DEFAULT_HEADER_LEVEL == [id |-> 1, tag |-> "H1"]
ALIGN_TYPES == <<"left", "center", "right", "justify">>
DEFAULT_ALIGN_TYPE == "left"
pasteConfig == {"H1", "H2", "H3", "H4", "H5", "H6"}

\* an optional value: absent, or present
None == <<>>
Some(x) == <<x>>

\* HEADER_LEVELS.filter((level) => keep.includes(level.id))
filterLevels(seq, keep) ==
    LET Test(level) == level.id \in keep IN SelectSeq(seq, Test)
\* ALIGN_TYPES.filter((align) => keep.includes(align))
filterAligns(seq, keep) ==
    LET Test(align) == align \in keep IN SelectSeq(seq, Test)

Range(seq) == {seq[i] : i \in DOMAIN seq}

\* ------------------------------------------------------- inputs (bounded)
Chars == {"a", "&"}
\* the strings of at most k tokens
Strings(k) == UNION {[1..m -> Chars] : m \in 0..k}

\* the configurations: nothing configured; allow-lists with defaults they
\* hold; allow-lists with defaults they exclude, the lists holding level 1
\* and 'left' or not
Config(levels, defaultLevel, aligns, defaultAlignType) ==
    [levels |-> levels, defaultLevel |-> defaultLevel,
     alignTypes |-> aligns, defaultAlignType |-> defaultAlignType]
Configs ==
    {Config(None, Undefined, None, None),
     Config(Some({1, 2, 3}), Str(<<"2", "x">>), Some({"left", "center"}),
            Some("center")),
     Config(Some({1, 2, 3}), Num(5), Some({"left", "center"}), Some("justify")),
     Config(Some({2, 3}), Num(5), Some({"center", "right"}), Some("justify"))}

\* the data argument of the constructor: a non-object, null, or an object
\* whose fields are missing, well formed or malformed
InputStrings == Strings(1)
TextInputs == {Undefined} \cup {Str(x) : x \in InputStrings}
LevelInputs ==
    {Undefined, Num(0), Num(1), Num(3), Num(99), Str(<<"a", "b", "c">>),
     Str(<<"2">>)}
AlignInputs == {None, Some("right"), Some("center"), Some("bogus")}
Object(text, level, align) ==
    [t |-> "object", text |-> text, level |-> level, align |-> align]
NonObject(t) == [t |-> t, text |-> Undefined, level |-> Undefined, align |-> None]
\* {}: every field reads undefined
EmptyObject == Object(Undefined, Undefined, None)
DataInputs ==
    {NonObject("undefined"), NonObject("null"), NonObject("number"),
     NonObject("string")}
    \cup {Object(x, l, a) : x \in TextInputs, l \in LevelInputs, a \in AlignInputs}

\* the markup of a pasted element, as its innerHTML reads
PastedMarkup == {<<"a">>}
\* the text field of a merged fragment: missing, empty, or a text
FragmentTexts == {Undefined, Str(<<>>), Str(<<"a">>)}

\* typeof: null is an object
typeof(d) == IF d.t = "null" THEN "object" ELSE d.t

\* ------------------------------------------------------ instance getters
\* get availableLevels
availableLevels ==
    IF config.levels # None THEN filterLevels(HEADER_LEVELS, config.levels[1])
    ELSE HEADER_LEVELS

\* Array.prototype.find on level descriptors by id: the first descriptor with
\* that id, or absent
findLevel(seq, id) ==
    LET hits == {i \in DOMAIN seq : seq[i].id = id}
    IN  IF hits = {} THEN None
        ELSE Some(seq[CHOOSE i \in hits : \A j \in hits : i <= j])

\* Array.prototype.find on names
findAlign(seq, name) == IF name \in Range(seq) THEN Some(name) ELSE None

\* get userDefaultLevel
userDefaultLevel ==
    LET p == parseInt(config.defaultLevel)
        userSpecified ==
            IF p.nan THEN None ELSE findLevel(availableLevels, p.n)
    IN  IF Truthy(config.defaultLevel) /\ userSpecified # None
        THEN userSpecified[1]
        ELSE DEFAULT_HEADER_LEVEL

\* get availableAlignTypes
availableAlignTypes ==
    IF config.alignTypes # None THEN filterAligns(ALIGN_TYPES, config.alignTypes[1])
    ELSE ALIGN_TYPES

\* get userDefaultAlignType
userDefaultAlignType ==
    LET given == config.defaultAlignType # None /\ config.defaultAlignType[1] # ""
        userSpecified ==
            IF given THEN findAlign(availableAlignTypes, config.defaultAlignType[1])
            ELSE None
    IN  IF given /\ userSpecified # None THEN userSpecified[1]
        ELSE DEFAULT_ALIGN_TYPE

\* _normalizeData throws a TypeError reading a property of null
normalizeThrows(d) == d.t = "null"

\* _normalizeData falling back to the built-in defaults, not the user's
normalizeDataBuiltInDefaults(d) ==
    LET o == IF typeof(d) # "object" THEN EmptyObject ELSE d
    IN  [text |-> IF Truthy(o.text) THEN o.text.s ELSE <<>>,
         level |-> parseIntOr(o.level, DEFAULT_HEADER_LEVEL.id),
         align |-> IF o.align # None /\ o.align[1] # "" THEN o.align[1]
                   ELSE DEFAULT_ALIGN_TYPE]

\* _normalizeData
normalizeData(d) ==
    LET o == IF typeof(d) # "object" THEN EmptyObject ELSE d
    IN  [text |-> IF Truthy(o.text) THEN o.text.s ELSE <<>>,
         level |-> parseIntOr(o.level, userDefaultLevel.id),
         align |-> IF o.align # None /\ o.align[1] # "" THEN o.align[1]
                   ELSE userDefaultAlignType]

\* get currentLevel, of the stored data d
currentLevel(d) ==
    LET level == findLevel(availableLevels, d.level)
    IN  IF level = None THEN userDefaultLevel ELSE level[1]

\* get currentAlignType, of the stored data d
currentAlignType(d) ==
    LET alignType == findAlign(availableAlignTypes, d.align)
    IN  IF alignType = None THEN userDefaultAlignType ELSE alignType[1]

\* this._CSS
wrapper == <<"ce-header">>
wrapperForAlignment(alignType) == <<"ce-header-align-", alignType>>

\* _getElement without the line that sets innerHTML
getElementNoMarkup(d, id) ==
    [id |-> id,
     tagName |-> currentLevel(d).tag,
     innerHTML |-> <<>>,
     classList |-> {wrapper, wrapperForAlignment(currentAlignType(d))}]

\* _getElement, building node id from the stored data d
getElement(d, id) ==
    [id |-> id,
     tagName |-> currentLevel(d).tag,
     innerHTML |-> innerHTMLAfterSet(d.text),
     classList |-> {wrapper, wrapperForAlignment(currentAlignType(d))}]


\* ------------------------------------------------------------ the state
NoData == [text |-> <<>>, level |-> 0, align |-> ""]
NoElement == [id |-> 0, tagName |-> "", innerHTML |-> <<>>, classList |-> {}]
NodeIds == 1..MaxNodes
\* document.createElement returns a node that is none of the live ones
createElement ==
    CHOOSE id \in NodeIds :
        /\ id \notin children \cup {element.id}
        /\ \A other \in NodeIds \ (children \cup {element.id}) : id <= other


\* the call recorded in last: its name, and the arguments it was given: the
\* data of the constructor or the fragment of merge, the tag and markup of a
\* pasted element, the level or alignment of a settings entry
Call(op, props, tagName, html, level, align) ==
    [op |-> op, props |-> props, tagName |-> tagName, html |-> html,
     level |-> level, align |-> align]
NoProps == NonObject("undefined")

Init ==
    /\ pc = "new"
    /\ config \in Configs
    /\ data = NoData
    /\ element = NoElement
    /\ children = {}
    /\ last = Call("none", NoProps, "", <<>>, 0, "")

\* new Header({api, readOnly, config, data: props})
Constructor(props) ==
    /\ pc = "new"
    /\ last' = Call("constructor", props, "", <<>>, 0, "")
    /\ IF normalizeThrows(props)
       THEN /\ pc' = "threw"
            /\ UNCHANGED <<config, data, element, children>>
       ELSE /\ pc' = "live"
            /\ LET newData == normalizeData(props)
               IN  /\ data' = newData
                   /\ element' = getElement(newData, createElement)
            /\ UNCHANGED <<config, children>>

\* render()
render == element

\* the host calls render() once, after construction, and appends the node it
\* returns to the block's parent node
HostRender ==
    /\ pc = "live"
    /\ children = {}
    /\ children' = {render.id}
    /\ last' = Call("render", NoProps, "", <<>>, 0, "")
    /\ UNCHANGED <<pc, config, data, element>>

\* _setHeaderLevel without the line that copies the old element's markup
setHeaderLevelNoCopy(newLevel) ==
    LET newData == [data EXCEPT !.level = parseIntOr(newLevel, userDefaultLevel.id)]
        newHeader == getElement(newData, createElement)
    IN  /\ data' = newData
        /\ IF newLevel # Undefined /\ element.id \in children
           THEN /\ children' = (children \ {element.id}) \cup {newHeader.id}
                /\ element' = newHeader
           ELSE UNCHANGED <<element, children>>

\* _setHeaderLevel(newLevel)
setHeaderLevel(newLevel) ==
    LET newData == [data EXCEPT !.level = parseIntOr(newLevel, userDefaultLevel.id)]
        newHeader ==
            [getElement(newData, createElement)
                EXCEPT !.innerHTML = innerHTMLAfterSet(element.innerHTML)]
    IN  /\ data' = newData
        /\ IF newLevel # Undefined /\ element.id \in children
           THEN /\ children' = (children \ {element.id}) \cup {newHeader.id}
                /\ element' = newHeader
           ELSE UNCHANGED <<element, children>>

RECURSIVE forEachAlign(_, _, _)
\* the forEach of _setAlignType over the names in seq
forEachAlign(classes, seq, newAlign) ==
    IF seq = <<>> THEN classes
    ELSE LET alignClass == wrapperForAlignment(Head(seq))
             removed == classes \ {alignClass}
             added == IF newAlign = Head(seq) THEN removed \cup {alignClass}
                      ELSE removed
         IN  forEachAlign(added, Tail(seq), newAlign)

\* _setAlignType(newAlign)
setAlignType(newAlign) ==
    /\ data' = [data EXCEPT !.align = newAlign]
    /\ element' =
          [element EXCEPT !.classList = forEachAlign(@, ALIGN_TYPES, newAlign)]
    /\ UNCHANGED children

\* save(blockContent)
save(blockContent) ==
    [text |-> blockContent.innerHTML,
     level |-> currentLevel(data).id,
     align |-> currentAlignType(data)]

\* renderSettings(): one entry per element of the two lists it maps over
headerTypes ==
    LET current == currentLevel(data).id
    IN  [i \in DOMAIN HEADER_LEVELS |->
            [toggle |-> "heading", level |-> HEADER_LEVELS[i].id, align |-> "",
             isActive |-> HEADER_LEVELS[i].id = current]]
alignTypes ==
    LET current == currentAlignType(data)
    IN  [i \in DOMAIN ALIGN_TYPES |->
            [toggle |-> "align", level |-> 0, align |-> ALIGN_TYPES[i],
             isActive |-> ALIGN_TYPES[i] = current]]
renderSettings == headerTypes \o alignTypes

\* the host activates a "heading" entry of the settings menu
ActivateHeading ==
    /\ pc = "live"
    /\ \E entry \in Range(renderSettings) :
          /\ entry.toggle = "heading"
          /\ setHeaderLevel(Num(entry.level))
          /\ last' = Call("setHeaderLevel", NoProps, "", <<>>, entry.level, "")
    /\ UNCHANGED <<pc, config>>

\* the host activates an "align" entry of the settings menu
ActivateAlign ==
    /\ pc = "live"
    /\ \E entry \in Range(renderSettings) :
          /\ entry.toggle = "align"
          /\ setAlignType(entry.align)
          /\ last' = Call("setAlignType", NoProps, "", <<>>, 0, entry.align)
    /\ UNCHANGED <<pc, config>>

\* the switch of onPaste with every case falling to the default
pasteLevelDefaultOnly(tagName) == userDefaultLevel.id

\* the level onPaste reads off the pasted element's tag
pasteLevel(tagName) ==
    CASE tagName = "H1" -> 1
      [] tagName = "H2" -> 2
      [] tagName = "H3" -> 3
      [] tagName = "H4" -> 4
      [] tagName = "H5" -> 5
      [] tagName = "H6" -> 6
      [] OTHER -> userDefaultLevel.id

\* the data onPaste stores
pasteData(tagName, html) ==
    normalizeData(Object(Str(html), Num(pasteLevel(tagName)),
                         Some(currentAlignType(data))))

\* onPaste(event), event.detail.data an element with this tag and markup
onPaste(tagName, html) ==
    /\ pc = "live"
    /\ LET newData == pasteData(tagName, html)
       IN  /\ data' = newData
           /\ element' = getElement(newData, createElement)
    /\ last' = Call("onPaste", NoProps, tagName, html, 0, "")
    /\ UNCHANGED <<pc, config, children>>

\* the markup merge(fragment) assigns: innerHTML + fragment.text || ''
mergedMarkup(fragment) ==
    LET sum == element.innerHTML \o toStr(fragment.text)
    IN  IF sum # <<>> THEN sum ELSE <<>>

\* merge(fragment), fragment an object
merge(fragment) ==
    /\ pc = "live"
    /\ Len(mergedMarkup(fragment)) <= MaxLen
    /\ element' =
          [element EXCEPT !.innerHTML = innerHTMLAfterSet(mergedMarkup(fragment))]
    /\ last' = Call("merge", fragment, "", <<>>, 0, "")
    /\ UNCHANGED <<pc, config, data, children>>

Next ==
    \/ \E props \in DataInputs : Constructor(props)
    \/ HostRender
    \/ ActivateHeading
    \/ ActivateAlign
    \/ \E tagName \in pasteConfig, html \in PastedMarkup : onPaste(tagName, html)
    \/ \E x \in FragmentTexts : merge(Object(x, Undefined, None))

Spec == Init /\ [][Next]_vars

\* ------------------------------------------------------------ properties
availableLevelIds == [i \in DOMAIN availableLevels |-> availableLevels[i].id]
alignClasses(el) ==
    el.classList \cap {wrapperForAlignment(a) : a \in Range(ALIGN_TYPES)}
IsHeading(entry) == entry.toggle = "heading"
IsAlign(entry) == entry.toggle = "align"

\* C1: whatever the configuration and whatever calls were made, the record
\* save returns has a level among availableLevels and an align among
\* availableAlignTypes.
C1_SavedLevelAndAlignAvailable ==
    pc = "live" =>
        /\ save(render).level \in Range(availableLevelIds)
        /\ save(render).align \in Range(availableAlignTypes)

\* C2: the constructor never throws, whatever the data argument, and leaves
\* a state with text, level and align.
C2_ConstructionNeverFails ==
    last.op = "constructor" =>
        /\ pc = "live"
        /\ data.level # 0
        /\ data.align # ""

\* C3: merge(fragment) makes the markup the previous markup followed by
\* fragment.text when that is a non-empty string, and leaves the markup as
\* it was when fragment.text is missing or falsy.
C3_MergeAppendsText ==
    [][last'.op = "merge" =>
          element'.innerHTML =
              IF Truthy(last'.props.text)
              THEN element.innerHTML \o last'.props.text.s
              ELSE element.innerHTML]_vars

\* C4: renderSettings returns one entry per available level, in built-in
\* order, followed by one entry per available alignment, in built-in order,
\* and no entry for an excluded level or alignment.
C4_SettingsAreTheAvailable ==
    pc = "live" =>
        LET headings == SelectSeq(renderSettings, IsHeading)
            aligns == SelectSeq(renderSettings, IsAlign)
        IN  /\ renderSettings = headings \o aligns
            /\ [i \in DOMAIN headings |-> headings[i].level] = availableLevelIds
            /\ [i \in DOMAIN aligns |-> aligns[i].align] = availableAlignTypes

\* C5: the element render returns has the tag of the level save reports.
C5_RenderedTagIsSavedLevel ==
    pc = "live" => render.tagName = TagOf[save(render).level]

\* C6: the tracked element carries exactly one alignment class, the class of
\* the alignment save reports.
C6_OneAlignClassTheSavedOne ==
    pc = "live" =>
        alignClasses(element) = {wrapperForAlignment(save(render).align)}

\* a record {text, level, align} with non-empty text, level in 1..6 and one
\* of the four alignments
ValidRecord(D) ==
    /\ D.t = "object"
    /\ D.text.t = "string" /\ D.text.s # <<>>
    /\ D.level.t = "number" /\ D.level.n \in 1..6
    /\ D.align # None /\ D.align[1] \in Range(ALIGN_TYPES)
AsSaved(D) == [text |-> D.text.s, level |-> D.level.n, align |-> D.align[1]]

\* C7 as stated: for every valid record D, save on the element render returns
\* right after construction with D returns D.
C7_RoundTrip ==
    LET D == last.props
    IN  (last.op = "constructor" /\ pc = "live" /\ ValidRecord(D))
            => save(render) = AsSaved(D)

\* C7: for every valid record D whose level is among availableLevels, whose
\* align is among availableAlignTypes and whose text is markup as innerHTML
\* writes it, save on the element render returns right after construction
\* with D returns D.
C7_RoundTripOfAvailable ==
    LET D == last.props
    IN  (/\ last.op = "constructor" /\ pc = "live" /\ ValidRecord(D)
         /\ D.level.n \in Range(availableLevelIds)
         /\ D.align[1] \in Range(availableAlignTypes)
         /\ innerHTMLAfterSet(D.text.s) = D.text.s)
            => save(render) = AsSaved(D)

\* a block just constructed, under allow-lists, from a record they admit
C7_Witness ==
    /\ pc = "live"
    /\ config.levels # None
    /\ last.op = "constructor"
    /\ last.props = Object(Str(<<"a">>), Num(3), Some("center"))
    /\ save(render) = [text |-> <<"a">>, level |-> 3, align |-> "center"]

\* C8: pasting an element with tag Hk and markup m makes the state
\* {text: m, level: k, align: the alignment current before the paste}, and
\* the tracked element a new node, not the previous one, with no parent.
C8_PasteImport ==
    [][last'.op = "onPaste" =>
          \E k \in 1..6 :
              /\ last'.tagName = TagOf[k]
              /\ data' = [text |-> last'.html, level |-> k,
                          align |-> currentAlignType(data)]
              /\ element'.id # element.id
              /\ element'.id \notin children']_vars

\* a block that was rendered right-aligned, then pasted an H2 with markup a
C8_Witness ==
    /\ pc = "live"
    /\ last = Call("onPaste", NoProps, "H2", <<"a">>, 0, "")
    /\ children # {}
    /\ element.id \notin children
    /\ data = [text |-> <<"a">>, level |-> 2, align |-> "right"]
    /\ element.tagName = "H2"

MalformedInputs ==
    {NonObject("undefined"), NonObject("number"), NonObject("string"),
     EmptyObject,
     Object(Undefined, Str(<<"a", "b", "c">>), None),
     Object(Undefined, Num(99), None)}
Defaults ==
    [text |-> <<>>, level |-> userDefaultLevel.id, align |-> userDefaultAlignType]

C10_LevelReplacesAlignKeeps ==
    [][/\ (last'.op = "setHeaderLevel" /\ element.id \in children) =>
              /\ element'.id # element.id
              /\ children' = {element'.id}
              /\ element'.innerHTML = element.innerHTML
              /\ data'.align = data.align
       /\ last'.op = "setAlignType" =>
              /\ element'.id = element.id
              /\ element'.tagName = element.tagName
              /\ element'.innerHTML = element.innerHTML
              /\ children' = children
              /\ data'.level = data.level]_vars

\* an attached element that is not the constructed node, holding merged
\* markup that its stored text does not have, under a changed alignment
C10_Witness ==
    /\ pc = "live"
    /\ last.op = "setHeaderLevel"
    /\ element.id \in children
    /\ element.id # 1
    /\ element.innerHTML = <<"&amp;", "a">>
    /\ data.text = <<"&">>
    /\ data.level = 4
    /\ data.align = "justify"

====
